---- MODULE Spec2Model ----
(***************************************************************************)
(* Model of the event generator (cmd/generator), the bulk loader           *)
(* (cmd/loader), the shared Event model and the random helpers of          *)
(* dgodyna/interviewing-golang.                                            *)
(*                                                                         *)
(* Seven specifications share the module's variables:                      *)
(*   Spec       the loader's main: read, decode, one transaction, commit   *)
(*   SpecGen    the generator's main: N x generateEvent, Marshal, WriteFile*)
(*   SpecType   generateEventType over every draw of rand.Intn(100)        *)
(*   SpecDate   RandomDate over the draws of its components                *)
(*   SpecString RandomString over every draw of rand.Int31n(40)            *)
(*   SpecEncode json.Marshal of Events with zero and empty fields          *)
(*   SpecReport reporter.SaveAndReport called again and again on one file  *)
(***************************************************************************)
EXTENDS Integers, Sequences, FiniteSets, TLC

----------------------------------------------------------------------------
(* Decimal text: strconv-style formatting and parsing of non-negative ints  *)

DigitChars == <<"0", "1", "2", "3", "4", "5", "6", "7", "8", "9">>

DigitChar(d) == DigitChars[d + 1]

IsDigit(c) == \E d \in 0..9 : DigitChars[d + 1] = c

DigitVal(c) == CHOOSE d \in 0..9 : DigitChars[d + 1] = c

AllDigits(s) == \A k \in 1..Len(s) : IsDigit(s[k])

RECURSIVE Itoa(_)
Itoa(n) == IF n < 10 THEN <<DigitChar(n)>>
           ELSE Itoa(n \div 10) \o <<DigitChar(n % 10)>>

RECURSIVE Atoi(_)
Atoi(s) == IF Len(s) = 0 THEN 0
           ELSE 10 * Atoi(SubSeq(s, 1, Len(s) - 1)) + DigitVal(s[Len(s)])

RECURSIVE Pow10(_)
Pow10(k) == IF k = 0 THEN 1 ELSE 10 * Pow10(k - 1)

\* n written with exactly w digits, zero padded on the left
RECURSIVE Pad(_, _)
Pad(n, w) == IF w = 0 THEN <<>> ELSE Pad(n \div 10, w - 1) \o <<DigitChar(n % 10)>>

----------------------------------------------------------------------------
(* time.Time: [unix |-> seconds since 1970-01-01T00:00:00Z,                 *)
(*             nsec |-> nanoseconds within the second,                      *)
(*             off  |-> offset of its location east of UTC, in seconds]     *)

isLeap(y) == y % 4 = 0 /\ (y % 100 # 0 \/ y % 400 = 0)

\* days before the first of each month in a non-leap year
daysBefore == <<0, 31, 59, 90, 120, 151, 181, 212, 243, 273, 304, 334, 365>>

daysIn(m, y) == IF m = 2 /\ isLeap(y) THEN 29 ELSE daysBefore[m + 1] - daysBefore[m]

\* days from 1970-01-01 to January 1 of year y (y >= 1970)
daysSinceEpoch(y) ==
    365 * (y - 1970) + (y - 1969) \div 4 - (y - 1901) \div 100 + (y - 1601) \div 400

\* time.Date(y, m, d, h, mi, s, ns, time.UTC) for m in 1..12, h < 24, mi, s < 60,
\* ns < 10^9; the day is not range checked: d - 1 days are added to the first of
\* the month, so day 0 is the last day of the month before.
Date(y, m, d, h, mi, s, ns) ==
    LET days == daysSinceEpoch(y) + daysBefore[m]
                + (IF isLeap(y) /\ m >= 3 THEN 1 ELSE 0) + (d - 1)
    IN [unix |-> days * 86400 + h * 3600 + mi * 60 + s, nsec |-> ns, off |-> 0]

\* Time.Unix()
Unix(t) == t.unix

RECURSIVE yearOfDays(_, _)
yearOfDays(days, y) == IF daysSinceEpoch(y + 1) <= days THEN yearOfDays(days, y + 1) ELSE y

RECURSIVE monthOfYday(_, _, _)
monthOfYday(yday, y, m) ==
    IF m < 12 /\ yday >= daysBefore[m + 1] + (IF isLeap(y) /\ m >= 2 THEN 1 ELSE 0)
    THEN monthOfYday(yday, y, m + 1) ELSE m

\* Time.Date() and Time.Clock(): the civil fields of an instant in its location
Civil(t) ==
    LET loc  == t.unix + t.off
        days == loc \div 86400
        rem  == loc % 86400
        y    == yearOfDays(days, 1970)
        yday == days - daysSinceEpoch(y)
        m    == monthOfYday(yday, y, 1)
        d    == yday - daysBefore[m] - (IF isLeap(y) /\ m >= 3 THEN 1 ELSE 0) + 1
    IN [year |-> y, month |-> m, day |-> d,
        hour |-> rem \div 3600, min |-> (rem % 3600) \div 60, sec |-> rem % 60]

RECURSIVE TrimZeros(_)
TrimZeros(s) == IF Len(s) > 0 /\ s[Len(s)] = "0" THEN TrimZeros(SubSeq(s, 1, Len(s) - 1))
                ELSE s

\* the fraction of layout "2006-01-02T15:04:05.999999999Z07:00": nothing for a
\* whole second, else a point and nine digits with the trailing zeros removed
appendNano(ns) == IF ns = 0 THEN <<>> ELSE <<".">> \o TrimZeros(Pad(ns, 9))

appendZone(off) ==
    IF off = 0 THEN <<"Z">>
    ELSE LET a == IF off < 0 THEN -off ELSE off
         IN <<IF off < 0 THEN "-" ELSE "+">> \o Pad(a \div 3600, 2) \o <<":">>
            \o Pad((a % 3600) \div 60, 2)

\* Time.Format(time.RFC3339Nano), the text Time.MarshalJSON puts between quotes
FormatRFC3339Nano(t) ==
    LET c == Civil(t)
    IN Pad(c.year, 4) \o <<"-">> \o Pad(c.month, 2) \o <<"-">> \o Pad(c.day, 2)
       \o <<"T">> \o Pad(c.hour, 2) \o <<":">> \o Pad(c.min, 2) \o <<":">> \o Pad(c.sec, 2)
       \o appendNano(t.nsec) \o appendZone(t.off)

\* the part of an RFC 3339 text after the seconds: [frac, zone], or ok = FALSE
SplitTail(tail) ==
    LET zlen == IF Len(tail) >= 1 /\ tail[Len(tail)] = "Z" THEN 1 ELSE 6
        frac == IF Len(tail) >= zlen THEN SubSeq(tail, 1, Len(tail) - zlen) ELSE <<>>
        zone == IF Len(tail) >= zlen THEN SubSeq(tail, Len(tail) - zlen + 1, Len(tail)) ELSE <<>>
        zoneOk == \/ zone = <<"Z">>
                  \/ /\ Len(zone) = 6
                     /\ zone[1] \in {"+", "-"}
                     /\ zone[4] = ":"
                     /\ AllDigits(SubSeq(zone, 2, 3)) /\ AllDigits(SubSeq(zone, 5, 6))
                     /\ Atoi(SubSeq(zone, 2, 3)) < 24 /\ Atoi(SubSeq(zone, 5, 6)) < 60
        fracOk == \/ frac = <<>>
                  \/ /\ Len(frac) >= 2 /\ Len(frac) <= 10
                     /\ frac[1] = "."
                     /\ AllDigits(SubSeq(frac, 2, Len(frac)))
    IN [ok |-> zoneOk /\ fracOk, frac |-> frac, zone |-> zone]

\* the fraction digits scaled to nanoseconds: ".5" is 500000000, ".00000005" is 50
parseNanoseconds(frac) ==
    IF frac = <<>> THEN 0
    ELSE Atoi(SubSeq(frac, 2, Len(frac))) * Pow10(9 - (Len(frac) - 1))

parseZone(zone) ==
    IF zone = <<"Z">> THEN 0
    ELSE (IF zone[1] = "-" THEN -1 ELSE 1)
         * (Atoi(SubSeq(zone, 2, 3)) * 3600 + Atoi(SubSeq(zone, 5, 6)) * 60)

\* time.Parse(time.RFC3339, s) as Time.UnmarshalJSON applies it:
\* [ok |-> FALSE] for a text that is no RFC 3339 time, else [ok |-> TRUE, t |-> time].
\* Years before 1970 are outside the day arithmetic above and are refused.
ParseRFC3339(s) ==
    LET shape == /\ Len(s) >= 20
                 /\ s[5] = "-" /\ s[8] = "-" /\ s[11] = "T" /\ s[14] = ":" /\ s[17] = ":"
                 /\ AllDigits(SubSeq(s, 1, 4)) /\ AllDigits(SubSeq(s, 6, 7))
                 /\ AllDigits(SubSeq(s, 9, 10)) /\ AllDigits(SubSeq(s, 12, 13))
                 /\ AllDigits(SubSeq(s, 15, 16)) /\ AllDigits(SubSeq(s, 18, 19))
    IN IF ~shape THEN [ok |-> FALSE]
       ELSE LET y    == Atoi(SubSeq(s, 1, 4))
                m    == Atoi(SubSeq(s, 6, 7))
                d    == Atoi(SubSeq(s, 9, 10))
                h    == Atoi(SubSeq(s, 12, 13))
                mi   == Atoi(SubSeq(s, 15, 16))
                sc   == Atoi(SubSeq(s, 18, 19))
                tail == SplitTail(SubSeq(s, 20, Len(s)))
                inRange == /\ y >= 1970
                           /\ m \in 1..12 /\ h < 24 /\ mi < 60 /\ sc < 60
                           /\ d >= 1 /\ d <= daysIn(m, y)
            IN IF ~(tail.ok /\ inRange) THEN [ok |-> FALSE]
               ELSE LET off == parseZone(tail.zone)
                        loc == Date(y, m, d, h, mi, sc, parseNanoseconds(tail.frac))
                    IN [ok |-> TRUE,
                        t  |-> [unix |-> loc.unix - off, nsec |-> loc.nsec, off |-> off]]

----------------------------------------------------------------------------
(* pkg/model: Event and its JSON form                                        *)

Fields == <<"EventSource", "EventRef", "EventType", "EventDate", "CallingNumber",
            "CalledNumber", "Location", "DurationSeconds", "Attr1", "Attr2",
            "Attr3", "Attr4", "Attr5", "Attr6", "Attr7", "Attr8">>

FieldSet == {Fields[k] : k \in 1..Len(Fields)}

IntFields == {"EventSource", "EventType", "CallingNumber", "CalledNumber", "DurationSeconds"}

TimeFields == {"EventDate"}

\* fault injection: the tags with attr_1 repeated on Attr2
JsonName_dupTag ==
    [EventSource |-> "event_source", EventRef |-> "event_ref", EventType |-> "event_type",
     EventDate |-> "event_date", CallingNumber |-> "calling_number",
     CalledNumber |-> "called_number", Location |-> "location",
     DurationSeconds |-> "duration_seconds", Attr1 |-> "attr_1", Attr2 |-> "attr_1",
     Attr3 |-> "attr_3", Attr4 |-> "attr_4", Attr5 |-> "attr_5", Attr6 |-> "attr_6",
     Attr7 |-> "attr_7", Attr8 |-> "attr_8"]

\* the `json:"..."` tag of each field of Event
JsonName ==
    [EventSource |-> "event_source", EventRef |-> "event_ref", EventType |-> "event_type",
     EventDate |-> "event_date", CallingNumber |-> "calling_number",
     CalledNumber |-> "called_number", Location |-> "location",
     DurationSeconds |-> "duration_seconds", Attr1 |-> "attr_1", Attr2 |-> "attr_2",
     Attr3 |-> "attr_3", Attr4 |-> "attr_4", Attr5 |-> "attr_5", Attr6 |-> "attr_6",
     Attr7 |-> "attr_7", Attr8 |-> "attr_8"]

\* A JSON value is [t |-> "num", v |-> text] or [t |-> "str", v |-> text between the
\* quotes]; an object is a function from its keys to values; a document is
\* [kind |-> "array", items |-> objects], [kind |-> "null"], [kind |-> "object"]
\* (a top-level value that is no array) or [kind |-> "malformed"].

\* encoding/json writes a string with ", \ and the HTML characters escaped
RECURSIVE encodeString(_)
encodeString(s) ==
    IF Len(s) = 0 THEN <<>>
    ELSE (CASE Head(s) \in {"\"", "\\"} -> <<"\\", Head(s)>>
            [] Head(s) = "<" -> <<"\\", "u", "0", "0", "3", "c">>
            [] Head(s) = ">" -> <<"\\", "u", "0", "0", "3", "e">>
            [] Head(s) = "&" -> <<"\\", "u", "0", "0", "2", "6">>
            [] OTHER -> <<Head(s)>>) \o encodeString(Tail(s))

RECURSIVE decodeString(_)
decodeString(s) ==
    IF Len(s) = 0 THEN <<>>
    ELSE IF Head(s) = "\\" /\ Len(s) >= 6 /\ s[2] = "u"
         THEN <<CASE SubSeq(s, 3, 6) = <<"0", "0", "3", "c">> -> "<"
                  [] SubSeq(s, 3, 6) = <<"0", "0", "3", "e">> -> ">"
                  [] OTHER -> "&">> \o decodeString(SubSeq(s, 7, Len(s)))
         ELSE IF Head(s) = "\\" /\ Len(s) >= 2
              THEN <<s[2]>> \o decodeString(SubSeq(s, 3, Len(s)))
              ELSE <<Head(s)>> \o decodeString(Tail(s))

encodeInt(n) == IF n < 0 THEN <<"-">> \o Itoa(-n) ELSE Itoa(n)

IsIntText(s) ==
    \/ Len(s) >= 1 /\ AllDigits(s)
    \/ Len(s) >= 2 /\ s[1] = "-" /\ AllDigits(Tail(s))

decodeInt(s) == IF s[1] = "-" THEN -Atoi(Tail(s)) ELSE Atoi(s)

\* the JSON value of field f holding v
encodeField(f, v) ==
    IF f \in IntFields THEN [t |-> "num", v |-> encodeInt(v)]
    ELSE IF f \in TimeFields THEN [t |-> "str", v |-> FormatRFC3339Nano(v)]
    ELSE [t |-> "str", v |-> encodeString(v)]

\* the zero value of field f
isZero(f, v) ==
    IF f \in IntFields THEN v = 0
    ELSE IF f \in TimeFields THEN FALSE
    ELSE v = <<>>

\* fault injection: encodeEvent with `omitempty` on every tag
encodeEvent_omitempty(e) ==
    [k \in {JsonName[f] : f \in {g \in FieldSet : ~isZero(g, e[g])}} |->
        LET f == CHOOSE g \in FieldSet : JsonName[g] = k IN encodeField(f, e[f])]

\* json.Marshal of one *Event: every field is written under its tag (no field has
\* omitempty)
encodeEvent(e) ==
    [k \in {JsonName[f] : f \in FieldSet} |->
        LET f == CHOOSE g \in FieldSet : JsonName[g] = k IN encodeField(f, e[f])]

\* whether JSON value j can be stored in field f
fieldOk(f, j) ==
    IF f \in IntFields THEN j.t = "num" /\ IsIntText(j.v)
    ELSE IF f \in TimeFields THEN j.t = "str" /\ ParseRFC3339(j.v).ok
    ELSE j.t = "str"

decodeField(f, j) ==
    IF f \in IntFields THEN decodeInt(j.v)
    ELSE IF f \in TimeFields THEN ParseRFC3339(j.v).t
    ELSE decodeString(j.v)

\* the objects handled carry every key of Event
eventOk(o) == \A f \in FieldSet : JsonName[f] \in DOMAIN o /\ fieldOk(f, o[JsonName[f]])

decodeEvent(o) == [f \in FieldSet |-> decodeField(f, o[JsonName[f]])]

\* Go slices: the nil slice and the empty slice differ
NilSlice == [isNil |-> TRUE, elems |-> <<>>]

EmptySlice == [isNil |-> FALSE, elems |-> <<>>]

append(s, x) == [isNil |-> FALSE, elems |-> Append(s.elems, x)]

\* json.Marshal(events) for []*model.Event: a nil slice is written as null
Marshal(events) ==
    IF events.isNil THEN [kind |-> "null"]
    ELSE [kind |-> "array",
          items |-> [k \in 1..Len(events.elems) |-> encodeEvent(events.elems[k])]]

\* json.Unmarshal(eventRaw, &events) into a nil []*model.Event: null leaves the
\* slice nil, an array is decoded element by element, anything else is an error
Unmarshal(doc) ==
    CASE doc.kind = "null" -> [err |-> FALSE, events |-> NilSlice]
      [] doc.kind = "array" ->
           IF \A k \in 1..Len(doc.items) : eventOk(doc.items[k])
           THEN [err |-> FALSE,
                 events |-> [isNil |-> FALSE,
                             elems |-> [k \in 1..Len(doc.items) |-> decodeEvent(doc.items[k])]]]
           ELSE [err |-> TRUE, events |-> NilSlice]
      [] OTHER -> [err |-> TRUE, events |-> NilSlice]

----------------------------------------------------------------------------
(* pkg/generator: RandomString, RandomDate; cmd/generator: generateEvent     *)

\* the alphabet of the first version of pkg/generator
letterRunesAlnum ==
    <<"a", "b", "c", "d", "e", "f", "g", "h", "i", "j", "k", "l", "m",
      "n", "o", "p", "q", "r", "s", "t", "u", "v", "w", "x", "y", "z",
      "A", "B", "C", "D", "E", "F", "G", "H", "I", "J", "K", "L", "M",
      "N", "O", "P", "Q", "R", "S", "T", "U", "V", "W", "X", "Y", "Z",
      "1", "2", "3", "4", "5", "6", "7", "8", "9", "0">>

\* the base64 alphabet of the later versions
letterRunes ==
    <<"A", "B", "C", "D", "E", "F", "G", "H", "I", "J", "K", "L", "M",
      "N", "O", "P", "Q", "R", "S", "T", "U", "V", "W", "X", "Y", "Z",
      "a", "b", "c", "d", "e", "f", "g", "h", "i", "j", "k", "l", "m",
      "n", "o", "p", "q", "r", "s", "t", "u", "v", "w", "x", "y", "z",
      "0", "1", "2", "3", "4", "5", "6", "7", "8", "9", "+", "/">>

\* fault injection: RandomString with the loop condition i < strLen
RandomString_exclusive(runes, strLen, idx) == [k \in 1..strLen |-> runes[idx[k] + 1]]

\* RandomString with strLen = rand.Int31n(40) and idx[k] the k-th draw of
\* rand.Int31n(len(letterRunes)): the loop runs for i = 0..strLen
RandomString(runes, strLen, idx) == [k \in 1..(strLen + 1) |-> runes[idx[k] + 1]]

\* RandomDate with the draws of rand.Intn(11), Intn(12), Intn(28), Intn(23),
\* Intn(59), Intn(59), Intn(59) in that order
RandomDate(ry, rm, rd, rh, rmi, rs, rns) == Date(ry + 2010, rm + 1, rd, rh, rmi, rs, rns)

HexChars == <<"0", "1", "2", "3", "4", "5", "6", "7", "8", "9", "a", "b", "c", "d", "e", "f">>

RECURSIVE Hex(_, _)
Hex(n, w) == IF w = 0 THEN <<>> ELSE Hex(n \div 16, w - 1) \o <<HexChars[(n % 16) + 1]>>

\* fault injection: the text of a UUID cut to its first group
uuidString_short(u) == Hex(0, 8)

\* uuid.New().String() for a version 4 UUID whose random bits are u:
\* xxxxxxxx-xxxx-4xxx-8xxx-xxxxxxxxxxxx
uuidString(u) ==
    Hex(0, 8) \o <<"-">> \o Hex(0, 4) \o <<"-", "4">> \o Hex(0, 3) \o <<"-", "8">> \o Hex(0, 3)
    \o <<"-">> \o Hex(u, 12)

\* generateEventType for r = rand.Intn(100): the if/else chain
generateEventType(r) ==
    IF r < 15 THEN 1
    ELSE IF r < 35 THEN 2
    ELSE IF r < 55 THEN 3
    ELSE 5

\* fault injection: the switch with its first case r <= 15
generateEventType_le(r) ==
    CASE r <= 15 -> 1
      [] r > 15 /\ r < 35 -> 2
      [] r >= 35 /\ r < 55 -> 3
      [] OTHER -> 5

\* the switch of the first version of cmd/generator
generateEventType_switch(r) ==
    CASE r < 15 -> 1
      [] r >= 15 /\ r < 35 -> 2
      [] r >= 35 /\ r < 55 -> 3
      [] OTHER -> 5

\* the if/else chain of the third copy of cmd/generator
generateEventType_copy(r) ==
    IF r < 15 THEN 1
    ELSE IF r < 35 THEN 2
    ELSE IF r < 55 THEN 3
    ELSE 5

\* the three copies of cmd/generator/main.go
GenVersions == {"current", "first", "copy"}

\* the two alphabets of pkg/generator
PkgVersions == {"alnum", "base64"}

runesOf(pkg) == IF pkg = "alnum" THEN letterRunesAlnum ELSE letterRunes

typeOf(ver, r) ==
    CASE ver = "current" -> generateEventType(r)
      [] ver = "first" -> generateEventType_switch(r)
      [] OTHER -> generateEventType_copy(r)

\* generateEvent for one record d of random draws:
\*   src, calling, called: rand.Intn(88005553535); u: the UUID's random bits;
\*   r: rand.Intn(100) of generateEventType; date: the seven draws of RandomDate;
\*   loc, attr[1..8]: [strLen, idx] of RandomString; dur: rand.Intn(100)
generateEvent(ver, pkg, d) ==
    LET str(x) == RandomString(runesOf(pkg), x.strLen, x.idx)
    IN [EventSource     |-> d.src,
        EventRef        |-> uuidString(d.u),
        EventType       |-> typeOf(ver, d.r),
        EventDate       |-> RandomDate(d.date[1], d.date[2], d.date[3], d.date[4],
                                       d.date[5], d.date[6], d.date[7]),
        CallingNumber   |-> d.calling,
        CalledNumber    |-> d.called,
        Location        |-> str(d.loc),
        DurationSeconds |-> d.dur,
        Attr1 |-> str(d.attr[1]), Attr2 |-> str(d.attr[2]), Attr3 |-> str(d.attr[3]),
        Attr4 |-> str(d.attr[4]), Attr5 |-> str(d.attr[5]), Attr6 |-> str(d.attr[6]),
        Attr7 |-> str(d.attr[7]), Attr8 |-> str(d.attr[8])]

\* the draws the model takes: boundary values of every draw, a date of day 0, the
\* fraction digits 0, 50 and 7, the last two runes, and one repeated UUID
S(strLen, idx) == [strLen |-> strLen, idx |-> idx]

\* the values rand.Intn(n) and rand.Int31n(n) return
Intn(n) == 0..(n - 1)

\* the least and the greatest of them
Ends(n) == {0, n - 1}

\* the bound 88005553535 of the draws of event_source, calling_number and
\* called_number, in decimal text (it is wider than 32 bits)
phoneBound == <<"8", "8", "0", "0", "5", "5", "5", "3", "5", "3", "5">>

\* a < b for two decimal texts without leading zeros
DecLess(a, b) ==
    \/ Len(a) < Len(b)
    \/ /\ Len(a) = Len(b)
       /\ \E k \in 1..Len(a) :
            /\ DigitVal(a[k]) < DigitVal(b[k])
            /\ \A j \in 1..(k - 1) : a[j] = b[j]

\* whether r is a value rand.Intn(88005553535) returns
phoneOk(r) == r >= 0 /\ DecLess(Itoa(r), phoneBound)

\* whether the draws of d are ones rand can return: each lies below the bound of
\* its call, and every rune index is below len(letterRunes)
drawOk(pkg, d) ==
    /\ phoneOk(d.src) /\ phoneOk(d.calling) /\ phoneOk(d.called)
    /\ d.r \in Intn(100) /\ d.dur \in Intn(100)
    /\ d.date[1] \in Intn(11) /\ d.date[2] \in Intn(12) /\ d.date[3] \in Intn(28)
    /\ d.date[4] \in Intn(23) /\ d.date[5] \in Intn(59) /\ d.date[6] \in Intn(59)
    /\ d.date[7] \in Intn(59)
    /\ \A x \in {d.loc} \cup {d.attr[k] : k \in 1..8} :
         /\ x.strLen \in Intn(40)
         /\ \A k \in 1..(x.strLen + 1) : x.idx[k] < Len(runesOf(pkg))

DrawSamples ==
    { [src |-> 0, u |-> 1, r |-> 0, date |-> <<0, 0, 0, 0, 0, 0, 0>>,
       calling |-> 0, called |-> 0, loc |-> S(0, <<0>>), dur |-> 0,
       attr |-> <<S(0, <<1>>), S(0, <<2>>), S(0, <<3>>), S(0, <<4>>),
                  S(0, <<5>>), S(0, <<6>>), S(0, <<7>>), S(0, <<8>>)>>],
      [src |-> 7, u |-> 2, r |-> 15, date |-> <<2, 2, 0, 22, 58, 58, 50>>,
       calling |-> 2147483, called |-> 12, loc |-> S(1, <<62, 63>>), dur |-> 99,
       attr |-> <<S(2, <<61, 0, 25>>), S(0, <<0>>), S(1, <<26, 51>>), S(0, <<9>>),
                  S(0, <<0>>), S(0, <<60>>), S(1, <<52, 53>>), S(0, <<0>>)>>],
      [src |-> 7, u |-> 3, r |-> 54, date |-> <<10, 11, 27, 1, 2, 3, 7>>,
       calling |-> 1000000000, called |-> 2000000000, loc |-> S(0, <<35>>), dur |-> 10,
       attr |-> <<S(0, <<10>>), S(0, <<11>>), S(0, <<12>>), S(0, <<13>>),
                  S(0, <<14>>), S(0, <<15>>), S(0, <<16>>), S(0, <<17>>)>>],
      [src |-> 9, u |-> 1, r |-> 99, date |-> <<6, 1, 27, 12, 30, 0, 58>>,
       calling |-> 5, called |-> 6, loc |-> S(0, <<20>>), dur |-> 1,
       attr |-> <<S(0, <<21>>), S(0, <<22>>), S(0, <<23>>), S(0, <<24>>),
                  S(0, <<25>>), S(0, <<26>>), S(0, <<27>>), S(0, <<28>>)>>] }

----------------------------------------------------------------------------
(* State                                                                     *)

VARIABLES
    \* cmd/generator main
    gpc,        \* position in main: "args", "atoi", "loop", "write", "done", "panic"
    gver,       \* which copy of cmd/generator runs
    gpkg,       \* which alphabet pkg/generator has
    gargs,      \* os.Args: [argc, count], count the text of os.Args[1]
    numEvents,  \* the parsed count
    gi,         \* the loop counter i
    gevents,    \* the slice events
    content,    \* the marshalled document
    outFile,    \* the output path on disk: [exists |-> FALSE] or [exists |-> TRUE, doc]
    generated,  \* every value generateEvent returned, in call order
    uuids,      \* the random bits of every UUID uuid.New() returned
    nWrites,    \* the calls of WriteFile made
    \* cmd/loader main and the database
    lpc,        \* position in main
    largs,      \* os.Args: "ok", "badcount" (not two arguments) or "badurl"
    inFile,     \* the input path on disk
    inFileOk,   \* whether the input can be read and decoded (fixed by the input)
    events,     \* the decoded slice
    li,         \* the index of the range loop (events handled so far)
    lerr,       \* the err of the last load
    conn,       \* "none", "open" (db handle held), "closed"
    tx,         \* the transaction: "none", "open", "aborted", "rolledback", "committed"
    txRows,     \* rows inserted by the open transaction, not yet visible
    store,      \* the committed rows of table event
    store0,     \* the committed rows before the run
    sqlLog,     \* every call made on the database, in order
    stdout,     \* the messages printed
    tz,         \* the server's time zone offset, in seconds
    \* generateEventType over the draws of rand.Intn(100)
    tver,       \* which copy of generateEventType
    tr,         \* the next draw to take
    ttyp,       \* the type returned for the last draw
    hist,       \* how many draws returned each type
    \* pkg/generator RandomString over the draws of rand.Int31n(40)
    spkg,       \* which alphabet pkg/generator has
    sn,         \* the next draw of strLen to take
    sstr,       \* the string returned for the last draw
    slens,      \* the lengths of the strings returned so far
    \* pkg/generator RandomDate
    dpc,        \* "call" before the call, "done" after it
    dtime,      \* the time returned
    \* json.Marshal of one Event
    epc,        \* "call" before the call, "done" after it
    eevent,     \* the Event marshalled
    edoc,       \* the document json.Marshal returned
    \* reporter: SaveAndReport on one statistics file
    statFile,   \* the lines of the statistics file (none when it does not exist)
    report,     \* what the last call of SaveAndReport printed
    rerr,       \* the error the last call returned: "nil", "read" or "save"
    ncalls      \* the calls of SaveAndReport made

gvars == <<gpc, gver, gpkg, gargs, numEvents, gi, gevents, content, outFile, generated, uuids,
           nWrites>>

lvars == <<lpc, largs, inFile, inFileOk, events, li, lerr, conn, tx, txRows, store, store0,
           sqlLog, stdout, tz>>

tvars == <<tver, tr, ttyp, hist>>

svars == <<spkg, sn, sstr, slens>>

dvars == <<dpc, dtime>>

evars == <<epc, eevent, edoc>>

\* the variables of the calls checked on their own
rvars == <<statFile, report, rerr, ncalls>>

fvars == <<svars, dvars, evars, rvars>>

vars == <<gvars, lvars, tvars, fvars>>

\* the largest count the generator is run with
MaxN == 2

NoFile == [exists |-> FALSE]

FileOf(doc) == [exists |-> TRUE, doc |-> doc]

\* a document that is no JSON: what a failed or torn write leaves
Malformed == [kind |-> "malformed"]

\* the variables of a program that does not run
GIdle ==
    /\ gpc = "idle" /\ gver = "current" /\ gpkg = "base64"
    /\ gargs = [argc |-> 3, count |-> <<"0">>]
    /\ numEvents = 0 /\ gi = 0 /\ gevents = NilSlice /\ content = Malformed
    /\ outFile = NoFile /\ generated = <<>> /\ uuids = {} /\ nWrites = 0

LIdle ==
    /\ lpc = "idle" /\ largs = "ok" /\ inFile = NoFile /\ inFileOk = FALSE
    /\ events = NilSlice /\ li = 0 /\ lerr = FALSE
    /\ conn = "none" /\ tx = "none" /\ txRows = <<>> /\ store = {} /\ store0 = {}
    /\ sqlLog = <<>> /\ stdout = <<>> /\ tz = 0

TIdle == tver = "current" /\ tr = 0 /\ ttyp = 0 /\ hist = <<>>

SIdle == spkg = "base64" /\ sn = 0 /\ sstr = <<>> /\ slens = {}

DIdle == dpc = "idle" /\ dtime = [unix |-> 0, nsec |-> 0, off |-> 0]

EIdle == epc = "idle" /\ eevent = <<>> /\ edoc = Malformed

RIdle == statFile = <<>> /\ report = <<>> /\ rerr = "nil" /\ ncalls = 0

FIdle == SIdle /\ DIdle /\ EIdle /\ RIdle

----------------------------------------------------------------------------
(* cmd/generator: main                                                       *)

\* os.Args of a run: a wrong argument count, a count that is no number, and the
\* counts -1..MaxN
GenArgs ==
    {[argc |-> 2, count |-> <<>>], [argc |-> 3, count |-> <<"x">>]}
    \cup {[argc |-> 3, count |-> encodeInt(n)] : n \in -1..MaxN}

GInit ==
    /\ gpc = "args"
    /\ gver \in GenVersions
    /\ gpkg \in PkgVersions
    /\ gargs \in GenArgs
    /\ numEvents = 0 /\ gi = 0 /\ gevents = NilSlice /\ content = Malformed
    /\ outFile = NoFile /\ generated = <<>> /\ uuids = {} /\ nWrites = 0
    /\ LIdle
    /\ TIdle
    /\ FIdle

\* if len(os.Args) != 3 { panic }
GCheckArgs ==
    /\ gpc = "args"
    /\ gpc' = IF gargs.argc # 3 THEN "panic" ELSE "atoi"
    /\ UNCHANGED <<gver, gpkg, gargs, numEvents, gi, gevents, content, outFile, generated, uuids,
                   nWrites>>
    /\ UNCHANGED <<lvars, tvars, fvars>>

\* the slice main starts with: []*model.Event{} or, in the first version, nil
initialEvents(ver) == IF ver = "first" THEN NilSlice ELSE EmptySlice

\* numEvents, err := strconv.Atoi(numEventsStr); events declared; i := 0
GAtoi ==
    /\ gpc = "atoi"
    /\ IF IsIntText(gargs.count)
       THEN /\ numEvents' = decodeInt(gargs.count)
            /\ gevents' = initialEvents(gver)
            /\ gpc' = "loop"
       ELSE /\ gpc' = "panic"
            /\ UNCHANGED <<numEvents, gevents>>
    /\ UNCHANGED <<gver, gpkg, gargs, gi, content, outFile, generated, uuids, nWrites>>
    /\ UNCHANGED <<lvars, tvars, fvars>>

\* fault injection: the loop condition i <= numEvents
loopCond_inclusive(i, n) == i <= n

\* the condition of for i := 0; i < numEvents; i++
loopCond(i, n) == i < n

\* the random bits uuid.New() draws from: as many values as the longest run needs
UuidBits == 1..MaxN

\* one iteration: events = append(events, generateEvent()); uuid.New() returns a
\* UUID it has not returned before (its 122 random bits repeat with probability
\* 2^-122 for a pair of calls)
GGenerate ==
    /\ gpc = "loop"
    /\ loopCond(gi, numEvents)
    /\ \E d \in {x \in DrawSamples : drawOk(gpkg, x)}, u \in UuidBits \ uuids :
         LET e == generateEvent(gver, gpkg, [d EXCEPT !.u = u])
         IN /\ gevents' = append(gevents, e)
            /\ generated' = Append(generated, e)
            /\ uuids' = uuids \cup {u}
    /\ gi' = gi + 1
    /\ UNCHANGED <<gpc, gver, gpkg, gargs, numEvents, content, outFile, nWrites>>
    /\ UNCHANGED <<lvars, tvars, fvars>>

\* json.Marshal fails for a time whose year is outside 0..9999
marshalErr(evs) == \E k \in 1..Len(evs.elems) : Civil(evs.elems[k].EventDate).year > 9999

\* after the loop: content, err := json.Marshal(events); panic on err
GMarshal ==
    /\ gpc = "loop"
    /\ ~loopCond(gi, numEvents)
    /\ IF marshalErr(gevents)
       THEN gpc' = "panic" /\ UNCHANGED content
       ELSE gpc' = "write" /\ content' = Marshal(gevents)
    /\ UNCHANGED <<gver, gpkg, gargs, numEvents, gi, gevents, outFile, generated, uuids, nWrites>>
    /\ UNCHANGED <<lvars, tvars, fvars>>

\* err = os.WriteFile(outPutFile, content, 0777) succeeds; main returns
GWriteFile ==
    /\ gpc = "write"
    /\ outFile' = FileOf(content)
    /\ nWrites' = nWrites + 1
    /\ gpc' = "done"
    /\ UNCHANGED <<gver, gpkg, gargs, numEvents, gi, gevents, content, generated, uuids>>
    /\ UNCHANGED <<lvars, tvars, fvars>>

\* fault injection: GWriteFileErr with the err of os.WriteFile not looked at
GWriteFileErr_swallowed ==
    /\ gpc = "write"
    /\ outFile' \in {outFile, FileOf(Malformed)}
    /\ nWrites' = nWrites + 1
    /\ gpc' = "done"
    /\ UNCHANGED <<gver, gpkg, gargs, numEvents, gi, gevents, content, generated, uuids>>
    /\ UNCHANGED <<lvars, tvars, fvars>>

\* os.WriteFile fails (the path cannot be created, or the disk fills while
\* writing and leaves a torn file); panic
GWriteFileErr ==
    /\ gpc = "write"
    /\ outFile' \in {outFile, FileOf(Malformed)}
    /\ nWrites' = nWrites + 1
    /\ gpc' = "panic"
    /\ UNCHANGED <<gver, gpkg, gargs, numEvents, gi, gevents, content, generated, uuids>>
    /\ UNCHANGED <<lvars, tvars, fvars>>

GNext == GCheckArgs \/ GAtoi \/ GGenerate \/ GMarshal \/ GWriteFile \/ GWriteFileErr

SpecGen == GInit /\ [][GNext]_vars

----------------------------------------------------------------------------
(* generateEventType over every draw                                         *)

\* the bound of rand.Intn in generateEventType
IntnBound == 100

TInit ==
    /\ tver \in GenVersions
    /\ tr = 0
    /\ ttyp = 0
    /\ hist = [t \in 1..5 |-> 0]
    /\ GIdle
    /\ LIdle
    /\ FIdle

\* the call of generateEventType in which rand.Intn(100) returns tr
TDraw ==
    /\ tr < IntnBound
    /\ ttyp' = typeOf(tver, tr)
    /\ hist' = [hist EXCEPT ![typeOf(tver, tr)] = @ + 1]
    /\ tr' = tr + 1
    /\ UNCHANGED tver
    /\ UNCHANGED <<gvars, lvars, fvars>>

TNext == TDraw

SpecType == TInit /\ [][TNext]_vars

----------------------------------------------------------------------------
(* pkg/generator: RandomDate over its draws                                  *)

DInit ==
    /\ dpc = "call"
    /\ dtime = [unix |-> 0, nsec |-> 0, off |-> 0]
    /\ SIdle
    /\ EIdle
    /\ RIdle
    /\ GIdle
    /\ LIdle
    /\ TIdle

\* one call of RandomDate: every draw of the year, the month and the day, and the
\* ends of the draws of the hour, minute, second and nanosecond
DRandomDate ==
    /\ dpc = "call"
    /\ \E ry \in Intn(11), rm \in Intn(12), rd \in Intn(28) :
         \E rh \in Ends(23), rmi \in Ends(59), rs \in Ends(59), rns \in Ends(59) :
            dtime' = RandomDate(ry, rm, rd, rh, rmi, rs, rns)
    /\ dpc' = "done"
    /\ UNCHANGED <<svars, evars, rvars>>
    /\ UNCHANGED <<gvars, lvars, tvars>>

DNext == DRandomDate

SpecDate == DInit /\ [][DNext]_vars

----------------------------------------------------------------------------
(* pkg/generator: RandomString over the draws of strLen                      *)

SInit ==
    /\ spkg \in PkgVersions
    /\ sn = 0
    /\ sstr = <<>>
    /\ slens = {}
    /\ DIdle
    /\ EIdle
    /\ RIdle
    /\ GIdle
    /\ LIdle
    /\ TIdle

\* the rune draws of one call: the same rune c throughout, for every c, or the
\* runes in the order of letterRunes
runeDraws(n, len) ==
    {[k \in 1..n |-> c] : c \in Intn(len)} \cup {[k \in 1..n |-> (k - 1) % len]}

\* the call of RandomString in which rand.Int31n(40) returns sn
SRandomString ==
    /\ sn \in Intn(40)
    /\ \E idx \in runeDraws(sn + 1, Len(runesOf(spkg))) :
         sstr' = RandomString(runesOf(spkg), sn, idx)
    /\ slens' = slens \cup {Len(sstr')}
    /\ sn' = sn + 1
    /\ UNCHANGED spkg
    /\ UNCHANGED <<dvars, evars, rvars>>
    /\ UNCHANGED <<gvars, lvars, tvars>>

SNext == SRandomString

SpecString == SInit /\ [][SNext]_vars

----------------------------------------------------------------------------
(* pkg/model: json.Marshal of Events holding zero values                     *)

\* the Event whose fields in zs hold their zero value (0, the empty string) and
\* the others a value that is not zero
eventWithZeros(zs) ==
    [f \in FieldSet |->
        IF f \in TimeFields THEN Date(2015, 6, 15, 12, 0, 0, 0)
        ELSE IF f \in IntFields THEN (IF f \in zs THEN 0 ELSE 7)
        ELSE (IF f \in zs THEN <<>> ELSE <<"x">>)]

\* every choice of the fields that are zero (the zero time.Time, of year 1, is
\* outside the day arithmetic of this module; event_date always holds a date)
EncodeEvents == {eventWithZeros(zs) : zs \in SUBSET (FieldSet \ TimeFields)}

EInit ==
    /\ epc = "call"
    /\ eevent \in EncodeEvents
    /\ edoc = Malformed
    /\ SIdle
    /\ DIdle
    /\ RIdle
    /\ GIdle
    /\ LIdle
    /\ TIdle

\* json.Marshal([]*model.Event{&eevent})
EMarshal ==
    /\ epc = "call"
    /\ edoc' = Marshal(append(EmptySlice, eevent))
    /\ epc' = "done"
    /\ UNCHANGED eevent
    /\ UNCHANGED <<svars, dvars, rvars>>
    /\ UNCHANGED <<gvars, lvars, tvars>>

ENext == EMarshal

SpecEncode == EInit /\ [][ENext]_vars

----------------------------------------------------------------------------
(* reporter: Save, GetAllStatistics, SaveAndReport                           *)

\* an ExecutionStatistic
Stat(start, dur, n) == [ExecutionStart |-> start, Duration |-> dur, NumbOfEvents |-> n]

\* json.Marshal(stat): the object of one line of the file
encodeStat(st) ==
    [execution_start |-> [t |-> "str", v |-> FormatRFC3339Nano(st.ExecutionStart)],
     duration |-> [t |-> "num", v |-> encodeInt(st.Duration)],
     number_of_events |-> [t |-> "num", v |-> encodeInt(st.NumbOfEvents)]]

\* a line that is no JSON (a torn write, foreign content), and the empty line
Garbage == [bad |-> [t |-> "str", v |-> <<>>]]

EmptyLine == [empty |-> [t |-> "str", v |-> <<>>]]

\* whether json.Unmarshal accepts the line as an ExecutionStatistic
lineOk(l) ==
    /\ DOMAIN l = {"execution_start", "duration", "number_of_events"}
    /\ l.execution_start.t = "str" /\ ParseRFC3339(l.execution_start.v).ok
    /\ l.duration.t = "num" /\ IsIntText(l.duration.v)
    /\ l.number_of_events.t = "num" /\ IsIntText(l.number_of_events.v)

decodeStat(l) ==
    Stat(ParseRFC3339(l.execution_start.v).t, decodeInt(l.duration.v),
         decodeInt(l.number_of_events.v))

\* GetAllStatistics: the records of the lines that parse, in file order; empty and
\* malformed lines are skipped, a file that does not exist gives no record
GetAllStatistics(lines) ==
    LET good == SelectSeq(lines, lineOk)
    IN [k \in 1..Len(good) |-> decodeStat(good[k])]

\* Save: the line appended to the file
Save(lines, st) == Append(lines, encodeStat(st))

\* fmt's %.0f of a / b for a >= 0, b > 0: rounded to the nearest integer, a tie
\* to the even one
roundDiv(a, b) ==
    LET q == a \div b
        r == a % b
    IN IF 2 * r > b \/ (2 * r = b /\ q % 2 = 1) THEN q + 1 ELSE q

\* calculateImprovement: the colour and the text of the percentage
calculateImprovement(oldDuration, newDuration) ==
    IF oldDuration = 0 THEN [colour |-> "none", text |-> <<"N", "/", "A">>]
    ELSE IF oldDuration > newDuration
         THEN [colour |-> "green",
               text |-> <<"+">> \o Itoa(roundDiv((oldDuration - newDuration) * 100, oldDuration))
                        \o <<"%">>]
         ELSE IF oldDuration < newDuration
              THEN [colour |-> "red",
                    text |-> <<"-">> \o Itoa(roundDiv((newDuration - oldDuration) * 100,
                                                     oldDuration)) \o <<"%">>]
              ELSE [colour |-> "none", text |-> <<"0", "%">>]

\* formatNumber: the decimal digits, with a comma before every group of three
formatNumber(n) ==
    LET str == Itoa(n)
        piece(i) == IF i > 1 /\ (Len(str) - (i - 1)) % 3 = 0 THEN <<",", str[i]>>
                    ELSE <<str[i]>>
        RECURSIVE join(_)
        join(i) == IF i > Len(str) THEN <<>> ELSE piece(i) \o join(i + 1)
    IN IF n < 1000 THEN str ELSE join(1)

\* the records of all with the event count of st
sameEventStats(all, st) == SelectSeq(all, LAMBDA x : x.NumbOfEvents = st.NumbOfEvents)

\* what SaveAndReport prints between its two rules for the run st, allStats being
\* the records read before st was saved
reportLines(allStats, st) ==
    LET same  == sameEventStats(allStats, st)
        first == same[1]
        last  == same[Len(same) - 1]
    IN <<[msg |-> "Current Run", events |-> formatNumber(st.NumbOfEvents),
          duration |-> st.Duration]>>
       \o (IF Len(same) > 1
           THEN (IF first.Duration > 0
                 THEN <<[msg |-> "Comparin With First Run", of |-> first,
                         improvement |-> calculateImprovement(first.Duration, st.Duration)]>>
                 ELSE <<>>)
                \o (IF Len(same) >= 2 /\ last.Duration > 0
                       /\ last.ExecutionStart # first.ExecutionStart
                    THEN <<[msg |-> "Comparin With Last  Run", of |-> last,
                            improvement |-> calculateImprovement(last.Duration, st.Duration)]>>
                    ELSE <<>>)
           ELSE <<[msg |-> "First run for this event count"]>>)

\* the most calls of SaveAndReport on one file
MaxCalls == 4

\* the event counts and the durations (in nanoseconds) of the runs reported
EventCounts == {500, 1000000}

Durations == {0, 200, 300}

\* the start of the k-th run: five minutes after the one before
startOf(k) == [unix |-> Unix(Date(2024, 1, 1, 10, 0, 0, 0)) + 300 * k, nsec |-> 0, off |-> 0]

RInit ==
    /\ statFile \in {<<>>, <<Garbage>>, <<EmptyLine>>}
    /\ report = <<>>
    /\ rerr = "nil"
    /\ ncalls = 0
    /\ SIdle
    /\ DIdle
    /\ EIdle
    /\ GIdle
    /\ LIdle
    /\ TIdle

\* SaveAndReport(stat, filename) returns nil: the records are read, the line of
\* stat is appended, the report is printed
RSaveAndReport ==
    /\ ncalls < MaxCalls
    /\ \E n \in EventCounts, dur \in Durations :
         LET st == Stat(startOf(ncalls), dur, n)
         IN /\ statFile' = Save(statFile, st)
            /\ report' = reportLines(GetAllStatistics(statFile), st)
    /\ rerr' = "nil"
    /\ ncalls' = ncalls + 1
    /\ UNCHANGED <<svars, dvars, evars>>
    /\ UNCHANGED <<gvars, lvars, tvars>>

\* GetAllStatistics returns an error (the file cannot be opened or read):
\* SaveAndReport returns it; nothing is saved or printed
RReadErr ==
    /\ ncalls < MaxCalls
    /\ report' = <<>>
    /\ rerr' = "read"
    /\ ncalls' = ncalls + 1
    /\ UNCHANGED statFile
    /\ UNCHANGED <<svars, dvars, evars>>
    /\ UNCHANGED <<gvars, lvars, tvars>>

\* Save returns an error (the file cannot be opened for appending, or the write
\* fails and may leave a torn line): SaveAndReport returns it; nothing is printed
RSaveErr ==
    /\ ncalls < MaxCalls
    /\ statFile' \in {statFile, Append(statFile, Garbage)}
    /\ report' = <<>>
    /\ rerr' = "save"
    /\ ncalls' = ncalls + 1
    /\ UNCHANGED <<svars, dvars, evars>>
    /\ UNCHANGED <<gvars, lvars, tvars>>

RNext == RSaveAndReport \/ RReadErr \/ RSaveErr

SpecReport == RInit /\ [][RNext]_vars

----------------------------------------------------------------------------
(* cmd/loader: load, timeToTimestampNoTz and the database                    *)

\* fault injection: timeToTimestampNoTz formatting the seconds of the wall clock
\* of t's location
timeToTimestampNoTz_local(t) ==
    <<"to_timestamp(cast(">> \o encodeInt(Unix(t) + t.off) \o <<" as bigint))::date">>

\* timeToTimestampNoTz: fmt.Sprintf("to_timestamp(cast(%d as bigint))::date", t.Unix())
timeToTimestampNoTz(t) ==
    <<"to_timestamp(cast(">> \o encodeInt(Unix(t)) \o <<" as bigint))::date">>

\* the statement load executes: the query with the date expression formatted in,
\* and its fifteen parameters $1..$15
loadStmt(e) ==
    [date |-> timeToTimestampNoTz(e.EventDate),
     args |-> <<e.EventSource, e.EventRef, e.EventType, e.CallingNumber, e.CalledNumber,
                e.Location, e.DurationSeconds, e.Attr1, e.Attr2, e.Attr3, e.Attr4,
                e.Attr5, e.Attr6, e.Attr7, e.Attr8>>]

\* the server's value of to_timestamp(cast(n as bigint))::date in a session whose
\* time zone is zone seconds east of UTC: the civil date of that instant
pgDate(expr, zone) ==
    LET n == decodeInt(SubSeq(expr, 2, Len(expr) - 1))
        c == Civil([unix |-> n, nsec |-> 0, off |-> zone])
    IN [year |-> c.year, month |-> c.month, day |-> c.day]

\* the row of table event the insert statement adds
pgRow(stmt, zone) ==
    [event_source |-> stmt.args[1], event_ref |-> stmt.args[2], event_type |-> stmt.args[3],
     event_date |-> pgDate(stmt.date, zone),
     calling_number |-> stmt.args[4], called_number |-> stmt.args[5],
     location |-> stmt.args[6], duration_seconds |-> stmt.args[7],
     attr_1 |-> stmt.args[8], attr_2 |-> stmt.args[9], attr_3 |-> stmt.args[10],
     attr_4 |-> stmt.args[11], attr_5 |-> stmt.args[12], attr_6 |-> stmt.args[13],
     attr_7 |-> stmt.args[14], attr_8 |-> stmt.args[15]]

\* PRIMARY KEY (event_source, event_ref) and the unique index on event_ref: whether
\* row may be added to rows
keysFree(row, rows) ==
    \A r \in rows :
        /\ r.event_ref # row.event_ref
        /\ ~(r.event_source = row.event_source /\ r.event_ref = row.event_ref)

Range(seq) == {seq[k] : k \in 1..Len(seq)}

\* the rows the transaction sees: the committed ones and its own
visible == store \cup Range(txRows)

\* the longest batch a loaded file holds
MaxBatch == 3

\* the server time zones tried: UTC and UTC+3
ServerZones == {0, 10800}

\* the events of the loaded files: what the generator makes of its draws (the
\* first and the last share their event_ref)
LoaderEvents == {generateEvent("current", "base64", d) : d \in DrawSamples}

RECURSIVE SeqsUpTo(_, _)
SeqsUpTo(set, n) ==
    IF n = 0 THEN {<<>>}
    ELSE LET shorter == SeqsUpTo(set, n - 1)
         IN shorter \cup {Append(q, x) : q \in {p \in shorter : Len(p) = n - 1}, x \in set}

\* an array whose one element has a string where event_type needs a number
BadTypeDoc ==
    LET o == encodeEvent(CHOOSE e \in LoaderEvents : e.EventSource = 0)
    IN [kind |-> "array",
        items |-> <<[o EXCEPT !["event_type"] = [t |-> "str", v |-> <<"1">>]]>>]

\* an array of two events of the same instant, 2012-02-29T22:58:58Z: the first as
\* the generator writes it, with its fraction of 50 ns; the second written by
\* another encoder, in the zone +03:00 and with the fraction .5
RespelledDoc ==
    LET a == CHOOSE e \in LoaderEvents : e.EventRef = uuidString(2)
        b == CHOOSE e \in LoaderEvents : e.EventRef = uuidString(3)
        text == FormatRFC3339Nano([unix |-> Unix(a.EventDate), nsec |-> 500000000,
                                   off |-> 10800])
    IN [kind |-> "array",
        items |-> <<encodeEvent(a),
                    [encodeEvent(b) EXCEPT !["event_date"] = [t |-> "str", v |-> text]]>>]

\* the input path: missing, no JSON, null, a JSON object, an array with a badly
\* typed element, an array with a date in another spelling, and the artifact of
\* every batch of up to MaxBatch events
LoaderFiles ==
    {NoFile, FileOf(Malformed), FileOf([kind |-> "null"]), FileOf([kind |-> "object"]),
     FileOf(BadTypeDoc), FileOf(RespelledDoc)}
    \cup {FileOf(Marshal([isNil |-> FALSE, elems |-> b])) : b \in SeqsUpTo(LoaderEvents, MaxBatch)}

\* the table before the run: empty, or holding one row with the key of a
\* generated event
StoreSamples ==
    {{}} \cup {{pgRow(loadStmt(e), 0)} : e \in {x \in LoaderEvents : x.EventSource \in {0, 7}}}

Init ==
    /\ lpc = "args"
    /\ largs \in {"ok", "badcount", "badurl"}
    /\ inFile \in LoaderFiles
    /\ inFileOk = (inFile.exists /\ ~Unmarshal(inFile.doc).err)
    /\ store0 \in StoreSamples
    /\ tz \in ServerZones
    /\ largs # "ok" => inFile = NoFile /\ store0 = {} /\ tz = 0
    /\ store = store0
    /\ events = NilSlice /\ li = 0 /\ lerr = FALSE
    /\ conn = "none" /\ tx = "none" /\ txRows = <<>>
    /\ sqlLog = <<>> /\ stdout = <<>>
    /\ GIdle
    /\ TIdle
    /\ FIdle

\* if len(os.Args) != 3 { panic }
LCheckArgs ==
    /\ lpc = "args"
    /\ lpc' = IF largs = "badcount" THEN "panic" ELSE "url"
    /\ UNCHANGED <<largs, inFile, inFileOk, events, li, lerr, conn, tx, txRows, store, store0, sqlLog,
                   stdout, tz>>
    /\ UNCHANGED <<gvars, tvars, fvars>>

\* url, err := dburl.Parse(dbUrl); panic on err
LParseURL ==
    /\ lpc = "url"
    /\ lpc' = IF largs = "badurl" THEN "panic" ELSE "read"
    /\ UNCHANGED <<largs, inFile, inFileOk, events, li, lerr, conn, tx, txRows, store, store0, sqlLog,
                   stdout, tz>>
    /\ UNCHANGED <<gvars, tvars, fvars>>

\* eventRaw, err := ioutil.ReadFile(inputFile); panic on err
LReadFile ==
    /\ lpc = "read"
    /\ lpc' = IF inFile.exists THEN "decode" ELSE "panic"
    /\ UNCHANGED <<largs, inFile, inFileOk, events, li, lerr, conn, tx, txRows, store, store0, sqlLog,
                   stdout, tz>>
    /\ UNCHANGED <<gvars, tvars, fvars>>

\* fault injection: LUnmarshal with the err of json.Unmarshal not looked at
LUnmarshal_ignoreErr ==
    /\ lpc = "decode"
    /\ events' = Unmarshal(inFile.doc).events
    /\ stdout' = Append(stdout, "Total events to load")
    /\ lpc' = "open"
    /\ UNCHANGED <<largs, inFile, inFileOk, li, lerr, conn, tx, txRows, store, store0, sqlLog, tz>>
    /\ UNCHANGED <<gvars, tvars, fvars>>

\* err = json.Unmarshal(eventRaw, &events); panic on err; print the total
LUnmarshal ==
    /\ lpc = "decode"
    /\ LET r == Unmarshal(inFile.doc)
       IN IF r.err
          THEN lpc' = "panic" /\ UNCHANGED <<events, stdout>>
          ELSE /\ events' = r.events
               /\ stdout' = Append(stdout, "Total events to load")
               /\ lpc' = "open"
    /\ UNCHANGED <<largs, inFile, inFileOk, li, lerr, conn, tx, txRows, store, store0, sqlLog, tz>>
    /\ UNCHANGED <<gvars, tvars, fvars>>

\* db, err := sql.Open("postgres", url.DSN) succeeds
LOpen ==
    /\ lpc = "open"
    /\ conn' = "open"
    /\ sqlLog' = Append(sqlLog, [op |-> "open", ok |-> TRUE])
    /\ lpc' = "begin"
    /\ UNCHANGED <<largs, inFile, inFileOk, events, li, lerr, tx, txRows, store, store0, stdout, tz>>
    /\ UNCHANGED <<gvars, tvars, fvars>>

\* sql.Open fails; panic
LOpenErr ==
    /\ lpc = "open"
    /\ sqlLog' = Append(sqlLog, [op |-> "open", ok |-> FALSE])
    /\ lpc' = "panic"
    /\ UNCHANGED <<largs, inFile, inFileOk, events, li, lerr, conn, tx, txRows, store, store0, stdout, tz>>
    /\ UNCHANGED <<gvars, tvars, fvars>>

\* tx, err := db.Begin() succeeds; defer db.Close()
LBegin ==
    /\ lpc = "begin"
    /\ tx' = "open"
    /\ sqlLog' = Append(sqlLog, [op |-> "begin", ok |-> TRUE])
    /\ lpc' = "loop"
    /\ UNCHANGED <<largs, inFile, inFileOk, events, li, lerr, conn, txRows, store, store0, stdout, tz>>
    /\ UNCHANGED <<gvars, tvars, fvars>>

\* fault injection: LBeginErr with the err of db.Begin not looked at
LBeginErr_ignored ==
    /\ lpc = "begin"
    /\ sqlLog' = Append(sqlLog, [op |-> "begin", ok |-> FALSE])
    /\ lpc' = "loop"
    /\ UNCHANGED <<largs, inFile, inFileOk, events, li, lerr, conn, tx, txRows, store, store0, stdout, tz>>
    /\ UNCHANGED <<gvars, tvars, fvars>>

\* db.Begin fails (the server cannot be reached); panic, before db.Close is deferred
LBeginErr ==
    /\ lpc = "begin"
    /\ sqlLog' = Append(sqlLog, [op |-> "begin", ok |-> FALSE])
    /\ lpc' = "panic"
    /\ UNCHANGED <<largs, inFile, inFileOk, events, li, lerr, conn, tx, txRows, store, store0, stdout, tz>>
    /\ UNCHANGED <<gvars, tvars, fvars>>

\* fault injection: the range loop stopping one event early
rangeCond_short(i, evs) == i < Len(evs.elems) - 1

\* the range loop has an event left
rangeCond(i, evs) == i < Len(evs.elems)

\* fault injection: LLoad with the insert executed on db, outside the transaction
LLoad_autocommit ==
    /\ lpc = "loop"
    /\ li < Len(events.elems)
    /\ LET row == pgRow(loadStmt(events.elems[li + 1]), tz)
       IN /\ keysFree(row, visible)
          /\ store' = store \cup {row}
    /\ sqlLog' = Append(sqlLog, [op |-> "insert", idx |-> li + 1, ok |-> TRUE])
    /\ li' = li + 1
    /\ lerr' = FALSE
    /\ UNCHANGED <<lpc, largs, inFile, inFileOk, events, conn, tx, txRows, store0, stdout, tz>>
    /\ UNCHANGED <<gvars, tvars, fvars>>

\* fault injection: LLoad with a transaction begun for each event
LLoad_ownTx ==
    /\ lpc = "loop"
    /\ li < Len(events.elems)
    /\ LET row == pgRow(loadStmt(events.elems[li + 1]), tz)
       IN /\ keysFree(row, visible)
          /\ txRows' = Append(txRows, row)
    /\ sqlLog' = sqlLog \o <<[op |-> "begin", ok |-> TRUE],
                             [op |-> "insert", idx |-> li + 1, ok |-> TRUE]>>
    /\ li' = li + 1
    /\ lerr' = FALSE
    /\ UNCHANGED <<lpc, largs, inFile, inFileOk, events, conn, tx, store, store0, stdout, tz>>
    /\ UNCHANGED <<gvars, tvars, fvars>>

\* err = load(tx, e) returns nil: the insert is executed in the transaction
LLoad ==
    /\ lpc = "loop"
    /\ rangeCond(li, events)
    /\ LET row == pgRow(loadStmt(events.elems[li + 1]), tz)
       IN /\ keysFree(row, visible)
          /\ txRows' = Append(txRows, row)
    /\ sqlLog' = Append(sqlLog, [op |-> "insert", idx |-> li + 1, ok |-> TRUE])
    /\ li' = li + 1
    /\ lerr' = FALSE
    /\ UNCHANGED <<lpc, largs, inFile, inFileOk, events, conn, tx, store, store0, stdout, tz>>
    /\ UNCHANGED <<gvars, tvars, fvars>>

\* fault injection: LLoadErr with the loop going on to the next event
LLoadErr_continue ==
    /\ lpc = "loop"
    /\ li < Len(events.elems)
    /\ sqlLog' = Append(sqlLog, [op |-> "insert", idx |-> li + 1, ok |-> FALSE])
    /\ lerr' = TRUE
    /\ li' = li + 1
    /\ UNCHANGED <<lpc, largs, inFile, inFileOk, events, conn, tx, txRows, store, store0, stdout, tz>>
    /\ UNCHANGED <<gvars, tvars, fvars>>

\* load returns an error: a key is taken, or the statement fails for another
\* reason (the connection drops); the server aborts the transaction
LLoadErr ==
    /\ lpc = "loop"
    /\ rangeCond(li, events)
    /\ sqlLog' = Append(sqlLog, [op |-> "insert", idx |-> li + 1, ok |-> FALSE])
    /\ lerr' = TRUE
    /\ tx' = "aborted"
    /\ lpc' = "rollback"
    /\ UNCHANGED <<largs, inFile, inFileOk, events, li, conn, txRows, store, store0, stdout, tz>>
    /\ UNCHANGED <<gvars, tvars, fvars>>

\* if err != nil { tx.Rollback(); panic }
LRollback ==
    /\ lpc = "rollback"
    /\ tx' = "rolledback"
    /\ txRows' = <<>>
    /\ sqlLog' = Append(sqlLog, [op |-> "rollback", ok |-> TRUE])
    /\ lpc' = "panic"
    /\ UNCHANGED <<largs, inFile, inFileOk, events, li, lerr, conn, store, store0, stdout, tz>>
    /\ UNCHANGED <<gvars, tvars, fvars>>

\* after the loop: fmt.Printf("sucessfully loaded %d events\n", len(events))
LPrintSuccess ==
    /\ lpc = "loop"
    /\ ~rangeCond(li, events)
    /\ stdout' = Append(stdout, "sucessfully loaded")
    /\ lpc' = "commit"
    /\ UNCHANGED <<largs, inFile, inFileOk, events, li, lerr, conn, tx, txRows, store, store0, sqlLog, tz>>
    /\ UNCHANGED <<gvars, tvars, fvars>>

\* tx.Commit() succeeds: the rows of the transaction become visible together
LCommit ==
    /\ lpc = "commit"
    /\ store' = store \cup Range(txRows)
    /\ txRows' = <<>>
    /\ tx' = "committed"
    /\ sqlLog' = Append(sqlLog, [op |-> "commit", ok |-> TRUE])
    /\ lpc' = "return"
    /\ UNCHANGED <<largs, inFile, inFileOk, events, li, lerr, conn, store0, stdout, tz>>
    /\ UNCHANGED <<gvars, tvars, fvars>>

\* tx.Commit() returns an error (the connection drops, the server shuts down): the
\* transaction is rolled back; main does not look at the error
LCommitErr ==
    /\ lpc = "commit"
    /\ txRows' = <<>>
    /\ tx' = "rolledback"
    /\ sqlLog' = Append(sqlLog, [op |-> "commit", ok |-> FALSE])
    /\ lpc' = "return"
    /\ UNCHANGED <<largs, inFile, inFileOk, events, li, lerr, conn, store, store0, stdout, tz>>
    /\ UNCHANGED <<gvars, tvars, fvars>>

\* main returns: the deferred db.Close() and the deferred print run; exit status 0
LReturn ==
    /\ lpc = "return"
    /\ conn' = "closed"
    /\ stdout' = Append(stdout, "Execution Time")
    /\ lpc' = "exit0"
    /\ UNCHANGED <<largs, inFile, inFileOk, events, li, lerr, tx, txRows, store, store0, sqlLog, tz>>
    /\ UNCHANGED <<gvars, tvars, fvars>>

\* a panic unwinds main: db.Close() runs if it was deferred (after Begin), the
\* deferred print runs, the error goes to stderr; exit status 2
LPanic ==
    /\ lpc = "panic"
    /\ conn' = IF tx # "none" THEN "closed" ELSE conn
    /\ stdout' = Append(stdout, "Execution Time")
    /\ lpc' = "exit2"
    /\ UNCHANGED <<largs, inFile, inFileOk, events, li, lerr, tx, txRows, store, store0, sqlLog, tz>>
    /\ UNCHANGED <<gvars, tvars, fvars>>

Next ==
    \/ LCheckArgs \/ LParseURL \/ LReadFile \/ LUnmarshal
    \/ LOpen \/ LOpenErr \/ LBegin \/ LBeginErr
    \/ LLoad \/ LLoadErr \/ LRollback
    \/ LPrintSuccess \/ LCommit \/ LCommitErr
    \/ LReturn \/ LPanic

Spec == Init /\ [][Next]_vars

----------------------------------------------------------------------------
(* Properties of the loader (Spec)                                           *)

\* the rows the decoded batch stands for on this server
BatchRows == {pgRow(loadStmt(events.elems[k]), tz) : k \in 1..Len(events.elems)}

BatchSize == Len(events.elems)

\* the batch is committed: each of its events is a row of its own, added to the
\* rows of before the run
BatchCommitted ==
    /\ store = store0 \cup BatchRows
    /\ Cardinality(store \ store0) = BatchSize

Inserts(ok) == {j \in DOMAIN sqlLog : sqlLog[j].op = "insert" /\ sqlLog[j].ok = ok}

LogHas(op, ok) == \E j \in DOMAIN sqlLog : sqlLog[j].op = op /\ sqlLog[j].ok = ok

Terminated == lpc \in {"exit0", "exit2"}

\* the run reports success: the success message was printed and the exit status is 0
ReportsSuccess == lpc = "exit0" /\ \E k \in DOMAIN stdout : stdout[k] = "sucessfully loaded"

\* the run reports failure: it ended in a panic, exit status 2
ReportsFailure == lpc = "exit2"

\* C1: in every state of a loader run the committed rows are those of before the
\* run, or those and the whole batch; a part of the batch is never committed.
C1_AllOrNothing == store = store0 \/ BatchCommitted

\* C1 witness: an insert failed after two had succeeded, the run ended, and the
\* table is as before.
C1_Witness ==
    /\ lpc = "exit2"
    /\ Cardinality(Inserts(TRUE)) = 2
    /\ Cardinality(Inserts(FALSE)) = 1
    /\ store = store0

\* C2: once the insert of the k-th event has failed, the only call that follows is
\* the rollback: no insert of a later event, no commit; the table keeps the rows of
\* before the run, the run is on its way to a panic and cannot stop before it, and
\* it ends with exit status 2 and the transaction rolled back.
C2_FailedInsertAborts ==
    \A j \in Inserts(FALSE) :
        /\ j >= Len(sqlLog) - 1
        /\ j < Len(sqlLog) => sqlLog[Len(sqlLog)] = [op |-> "rollback", ok |-> TRUE]
        /\ \A i \in 1..(j - 1) : sqlLog[i].op = "insert" => sqlLog[i].idx < sqlLog[j].idx
        /\ ~LogHas("commit", TRUE) /\ ~LogHas("commit", FALSE)
        /\ store = store0
        /\ lpc \in {"rollback", "panic", "exit2"}
        /\ lpc = "rollback" => ENABLED LRollback
        /\ lpc = "panic" => ENABLED LPanic
        /\ lpc \in {"panic", "exit2"} => tx = "rolledback" /\ txRows = <<>> /\ j = Len(sqlLog) - 1
        /\ Terminated => ReportsFailure /\ ~ReportsSuccess

\* C2 witness: the third event's event_ref is that of a row already in the table;
\* its insert failed after two inserts had succeeded, and the run has ended.
C2_Witness ==
    /\ lpc = "exit2"
    /\ BatchSize = 3
    /\ \E j \in Inserts(FALSE) : sqlLog[j].idx = 3
    /\ Cardinality(Inserts(TRUE)) = 2
    /\ ~keysFree(pgRow(loadStmt(events.elems[3]), tz), store0)
    /\ store = store0

\* C3: a commit is issued only when the inserts before it are exactly those of the
\* events 1..N, in order, each returned without error.
C3_CommitAfterAllInserts ==
    \A j \in DOMAIN sqlLog :
        sqlLog[j].op = "commit" =>
            LET before == SelectSeq(SubSeq(sqlLog, 1, j - 1), LAMBDA x : x.op = "insert")
            IN /\ Len(before) = BatchSize
               /\ \A k \in 1..Len(before) : before[k].ok /\ before[k].idx = k

\* C3 witness: a commit was issued for a batch of three events.
C3_Witness == LogHas("commit", TRUE) /\ BatchSize = 3

\* C4 as claimed: a run that reports success has committed the whole batch, and a
\* run that ends without the batch committed reports failure and leaves the table
\* as before.
C4_SuccessMeansCommitted ==
    /\ ReportsSuccess => BatchCommitted
    /\ (Terminated /\ ~BatchCommitted) => (ReportsFailure /\ store = store0)

\* C5: when the input file cannot be read or json.Unmarshal returns an error for
\* its content (inFileOk is false), nothing is ever called on the
\* database (no open, no begin, no insert), the table is unchanged, and the run can
\* only end in a panic.
C5_DecodeFailureIsFatalEarly ==
    ~inFileOk =>
        /\ sqlLog = <<>>
        /\ conn = "none" /\ tx = "none" /\ txRows = <<>>
        /\ store = store0
        /\ lpc \in {"args", "url", "read", "decode", "panic", "exit2"}
        /\ lpc = "panic" => ENABLED LPanic

\* C5 witness: the file holds an array with a badly typed element and the run has
\* ended in a panic.
C5_Witness == lpc = "exit2" /\ inFile = FileOf(BadTypeDoc) /\ largs = "ok"

\* C6: when sql.Open or db.Begin fails, no insert and no commit is issued, the
\* table is unchanged, and the run ends in a panic.
C6_UnreachableIsFatal ==
    (LogHas("open", FALSE) \/ LogHas("begin", FALSE)) =>
        /\ Inserts(TRUE) = {} /\ Inserts(FALSE) = {}
        /\ ~LogHas("commit", TRUE) /\ ~LogHas("commit", FALSE)
        /\ store = store0 /\ txRows = <<>>
        /\ lpc \in {"panic", "exit2"}
        /\ lpc = "panic" => ENABLED LPanic

\* C6 witness: db.Begin failed for a decoded batch of two events and the run has
\* ended in a panic.
C6_Witness == lpc = "exit2" /\ LogHas("begin", FALSE) /\ BatchSize = 2

\* the number between "cast(" and " as bigint" of a date expression
epochOf(expr) == decodeInt(SubSeq(expr, 2, Len(expr) - 1))

\* C18: for the events inserted so far, the date expression of the insert
\* carries the event's Unix seconds and nothing else: events of the same second
\* have the same expression and the same stored date, whatever zone and fraction
\* their event_date was written with, and the stored date is the server's date of
\* that second.
C18_DateFromEpoch ==
    \A k \in 1..Len(txRows) :
        LET b == events.elems[k]
        IN /\ epochOf(loadStmt(b).date) = Unix(b.EventDate)
           /\ txRows[k].event_date
                = LET c == Civil([unix |-> Unix(b.EventDate), nsec |-> 0, off |-> tz])
                  IN [year |-> c.year, month |-> c.month, day |-> c.day]
           /\ \A j \in 1..Len(txRows) :
                LET a == events.elems[j]
                IN Unix(a.EventDate) = Unix(b.EventDate) =>
                      /\ loadStmt(a).date = loadStmt(b).date
                      /\ txRows[j].event_date = txRows[k].event_date

\* C18 witness: two events of the same second, one written in UTC and one in
\* +03:00 with another fraction, were inserted on a server of zone +03:00.
C18_Witness ==
    /\ Len(txRows) = 2 /\ tz = 10800
    /\ Unix(events.elems[1].EventDate) = Unix(events.elems[2].EventDate)
    /\ events.elems[1].EventDate.off = 0 /\ events.elems[2].EventDate.off = 10800
    /\ events.elems[1].EventDate.nsec # events.elems[2].EventDate.nsec
    /\ txRows[1].event_date = [year |-> 2012, month |-> 3, day |-> 1]

\* the calls of kind op made so far
Calls(op) == SelectSeq(sqlLog, LAMBDA x : x.op = op)

\* C19: the database is opened at most once and a transaction begun at most
\* once; the inserts made so far are those of the events 1, 2, ... in artifact
\* order, each once, all after the one begin and before any commit or rollback;
\* when the loop has ended without error there is one insert for every event of
\* the artifact, and after the commit the table has one new row for each.
C19_OneTransaction ==
    LET ins == Calls("insert")
    IN /\ Len(Calls("open")) <= 1 /\ Len(Calls("begin")) <= 1
       /\ \A k \in 1..Len(ins) : ins[k].idx = k
       /\ Len(ins) <= BatchSize
       /\ \A j \in DOMAIN sqlLog :
            sqlLog[j].op = "insert" =>
                /\ j >= 3 /\ sqlLog[2] = [op |-> "begin", ok |-> TRUE]
                /\ \A i \in 1..(j - 1) : sqlLog[i].op \notin {"commit", "rollback"}
       /\ lpc \in {"commit", "return", "exit0"} =>
            /\ Len(ins) = BatchSize
            /\ \A k \in 1..Len(ins) : ins[k].ok
            /\ Calls("begin") = <<[op |-> "begin", ok |-> TRUE]>>
       /\ LogHas("commit", TRUE) =>
            /\ Len(Calls("commit")) = 1
            /\ Cardinality(store \ store0) = BatchSize
            /\ store \ store0 = BatchRows

\* C19 witness: a run for an artifact of three events has committed and returned.
C19_Witness ==
    /\ lpc = "exit0" /\ LogHas("commit", TRUE) /\ BatchSize = 3
    /\ Len(Calls("insert")) = 3
    /\ Cardinality(store \ store0) = 3

----------------------------------------------------------------------------
(* Properties of generateEventType (SpecType)                                *)

\* C7: in every copy of generateEventType the draw r gives type 1 for r in 0..14,
\* 2 for 15..34, 3 for 35..54 and 5 for 55..99; after the 100 draws the types
\* 1, 2, 3, 5 were returned 15, 20, 20 and 45 times and type 4 never.
C7_TypeBuckets ==
    /\ tr > 0 =>
         LET r == tr - 1
         IN \/ r \in 0..14 /\ ttyp = 1
            \/ r \in 15..34 /\ ttyp = 2
            \/ r \in 35..54 /\ ttyp = 3
            \/ r \in 55..99 /\ ttyp = 5
    /\ hist[4] = 0
    /\ hist[1] + hist[2] + hist[3] + hist[5] = tr
    /\ tr = IntnBound => hist = <<15, 20, 20, 0, 45>>

\* C7 witness: the switch version has taken all 100 draws.
C7_Witness == tver = "first" /\ tr = IntnBound /\ hist[5] = 45

----------------------------------------------------------------------------
(* Properties of the generator (SpecGen)                                     *)

\* the records of a document
Records(doc) == IF doc.kind = "array" THEN doc.items ELSE <<>>

\* C8: for a count N >= 0 generateEvent is called N times; the file is written at
\* most once, and only with the encoding of the N events generated, in the order
\* of generation.
C8_ExactlyNEvents ==
    /\ Len(generated) <= (IF numEvents < 0 THEN 0 ELSE numEvents)
    /\ nWrites <= 1
    /\ (gpc \in {"write", "done"} /\ numEvents >= 0) =>
          /\ Len(generated) = numEvents
          /\ Len(Records(content)) = numEvents
          /\ \A k \in 1..numEvents : Records(content)[k] = encodeEvent(generated[k])
    /\ nWrites = 1 => gpc \in {"done", "panic"}
    /\ gpc = "done" => nWrites = 1 /\ outFile = FileOf(content)

\* C8 witness: a run for N = 2 has written two different records.
C8_Witness ==
    /\ gpc = "done" /\ numEvents = 2
    /\ Len(Records(outFile.doc)) = 2
    /\ outFile.doc.items[1] # outFile.doc.items[2]

\* C9 as claimed: for N = 0 every version writes the empty array.
C9_EmptyArtifactIsArray ==
    (gpc = "done" /\ numEvents = 0) => outFile = FileOf([kind |-> "array", items |-> <<>>])

\* C10: the loader's decoding of the written artifact gives back the generated
\* events, as many and field for field.
C10_RoundTrip ==
    gpc = "done" =>
        LET r == Unmarshal(outFile.doc)
        IN /\ ~r.err
           /\ Len(r.events.elems) = Len(gevents.elems)
           /\ \A k \in 1..Len(gevents.elems) :
                \A f \in FieldSet : r.events.elems[k][f] = gevents.elems[k][f]

\* C10 witness: an artifact of two events was written, one with a fraction of 50 ns
\* and a day-0 date.
C10_Witness ==
    /\ gpc = "done" /\ Len(gevents.elems) = 2
    /\ gevents.elems[1].EventDate.nsec = 50
    /\ gevents.elems[2].EventDate.nsec = 0

rowsOf(evs) == [k \in 1..Len(evs) |-> pgRow(loadStmt(evs[k]), 0)]

WriteFailed == nWrites >= 1 /\ outFile # FileOf(content)

\* C17: a run whose write failed is in its panic and takes no further step: no
\* second write, no return; a run that has returned has left the whole encoding
\* of its events on disk; WriteFile is called at most once.
C17_WriteFailureIsFatal ==
    /\ WriteFailed => gpc = "panic"
    /\ gpc = "panic" => ~ENABLED GNext
    /\ gpc = "done" => outFile = FileOf(Marshal(gevents)) /\ ~WriteFailed
    /\ nWrites <= 1

\* C17 witness: the write of a run for N = 2 failed and left a torn file; the run
\* has panicked.
C17_Witness ==
    /\ gpc = "panic" /\ numEvents = 2 /\ Len(generated) = 2
    /\ nWrites = 1 /\ outFile = FileOf(Malformed)

----------------------------------------------------------------------------
(* Properties of RandomDate (SpecDate)                                       *)

\* C11 as claimed: every time RandomDate returns lies in the window from
\* 2010-01-01T00:00:00Z to the end of 2020.
C11_DateInWindow ==
    dpc = "done" =>
        /\ Unix(dtime) >= Unix(Date(2010, 1, 1, 0, 0, 0, 0))
        /\ Unix(dtime) < Unix(Date(2021, 1, 1, 0, 0, 0, 0))

\* C20 as claimed: the day of the month of every time RandomDate returns is one
\* of 1..27.
C20_DayOfMonth == dpc = "done" => Civil(dtime).day \in 1..27

----------------------------------------------------------------------------
(* Properties of RandomString (SpecString)                                   *)

\* the letters and digits
Alphanumeric ==
    {"a", "b", "c", "d", "e", "f", "g", "h", "i", "j", "k", "l", "m",
     "n", "o", "p", "q", "r", "s", "t", "u", "v", "w", "x", "y", "z",
     "A", "B", "C", "D", "E", "F", "G", "H", "I", "J", "K", "L", "M",
     "N", "O", "P", "Q", "R", "S", "T", "U", "V", "W", "X", "Y", "Z",
     "0", "1", "2", "3", "4", "5", "6", "7", "8", "9"}

\* C13 as claimed: no string RandomString returns is longer than 40, and once
\* every draw of strLen has been taken every length of 0..40, the empty string
\* included, has been returned.
C13_LengthRange ==
    /\ \A n \in slens : n <= 40
    /\ sn = 40 => slens = 0..40

\* C14 as claimed: every character of a string RandomString returns is a letter
\* or a digit, with either alphabet.
C14_Alphanumeric == \A k \in 1..Len(sstr) : sstr[k] \in Alphanumeric

----------------------------------------------------------------------------
(* Properties of the JSON form of Event (SpecEncode)                         *)

\* the sixteen names of a record
RecordKeys ==
    {"event_source", "event_ref", "event_type", "event_date", "calling_number",
     "called_number", "location", "duration_seconds", "attr_1", "attr_2", "attr_3",
     "attr_4", "attr_5", "attr_6", "attr_7", "attr_8"}

\* C15: the record json.Marshal writes for an Event has exactly the sixteen names,
\* whichever of its fields are zero or empty; a zero is written as 0 and an empty
\* string as "".
C15_AllFieldsWritten ==
    epc = "done" =>
        /\ edoc.kind = "array" /\ Len(edoc.items) = 1
        /\ DOMAIN edoc.items[1] = RecordKeys
        /\ Cardinality(DOMAIN edoc.items[1]) = 16
        /\ \A f \in FieldSet \ TimeFields :
             isZero(f, eevent[f]) =>
                edoc.items[1][JsonName[f]] =
                    (IF f \in IntFields THEN [t |-> "num", v |-> <<"0">>]
                     ELSE [t |-> "str", v |-> <<>>])

\* C15 witness: an Event whose fields other than event_date are all zero or
\* empty was marshalled.
C15_Witness ==
    /\ epc = "done"
    /\ \A f \in FieldSet \ TimeFields : isZero(f, eevent[f])
    /\ edoc.items[1]["attr_8"] = [t |-> "str", v |-> <<>>]

----------------------------------------------------------------------------
(* Properties of SaveAndReport (SpecReport)                                  *)

\* whether the last report has a line of message m
Printed(m) == \E k \in 1..Len(report) : report[k].msg = m

\* the run the last call reported: the record of the line it appended
CurrentRun == decodeStat(statFile[Len(statFile)])

\* the records of the current run's event count that the file held before the
\* last call
EarlierRuns ==
    sameEventStats(GetAllStatistics(SubSeq(statFile, 1, Len(statFile) - 1)), CurrentRun)

\* C21 as claimed: a call that returns nil prints "First run for this event count"
\* exactly when the file held no earlier record of the run's event count; when it
\* held one (of a duration above 0) the comparison with the first run is printed;
\* and a comparison with the last run is made with the most recent earlier record
\* of that event count.
C21_ComparesWithEarlierRuns ==
    (ncalls > 0 /\ rerr = "nil") =>
        /\ Printed("First run for this event count") <=> EarlierRuns = <<>>
        /\ (EarlierRuns # <<>> /\ EarlierRuns[1].Duration > 0) =>
              Printed("Comparin With First Run")
        /\ \A k \in 1..Len(report) :
              report[k].msg = "Comparin With Last  Run" =>
                  report[k].of = EarlierRuns[Len(EarlierRuns)]

====
